---- MODULE Spec2Model ----
(***************************************************************************)
(* A model of xshaper: the run registry (run.py: RunState, Run), the       *)
(* background monitor (monitor.py: Monitor, MonitorThread) and the compute *)
(* recorder (recorders/compute.py: ComputeRecorder).                       *)
(*                                                                         *)
(* Nine specifications share the module:                                   *)
(*   Spec          one caller thread drives Run(), begin() and end()       *)
(*                 against the registry, no monitor being active;          *)
(*   SpecMonitor   a caller thread that constructs monitors and makes runs *)
(*                 inside with blocks, and the monitor threads;            *)
(*   SpecRestart   a caller thread that constructs, refreshes and shuts    *)
(*                 down monitors and makes no runs, and the threads;       *)
(*   SpecSignal    a caller thread that constructs a monitor, makes runs   *)
(*                 and may send a message the monitor thread does not      *)
(*                 know, and the monitor thread;                           *)
(*   SpecScope     runs used as with blocks, left with or without an       *)
(*                 exception;                                              *)
(*   SpecSave      Run.save called by the caller thread and by the monitor *)
(*                 thread, step by step on the file system;                *)
(*   SpecFanOut    Run.begin and Run.end step by step against the update   *)
(*                 and save fan-outs of the monitor thread, with the lock; *)
(*   SpecShared    two caller threads that share one monitor;              *)
(*   SpecRecorder  a ComputeRecorder fed a sequence of samples.            *)
(***************************************************************************)
EXTENDS Integers, Sequences, FiniteSets, TLC

(***************************************************************************)
(* Bounds of the model.                                                    *)
(***************************************************************************)
\* number of Run objects the caller constructs
MaxRuns == 2
\* how many begin() calls the caller makes in all (a Run may be begun twice)
MaxBegins == 2

\* Python's None, for identifiers
None == 0
RunIds == 1..MaxRuns
\* the id of a run of another process, given as Run(parent=...)
ExtParent == MaxRuns + 1
\* values of RunRecord.status: None while in progress
Null == "null"
RunStatus == {"completed", "failed", "aborted"}

VARIABLES
    \* ---- run.py: STATE and the Run objects ----
    stack,      \* STATE._stack, a sequence of run ids, innermost last
    anchors,    \* STATE._anchors
    runs,       \* the Run objects constructed so far, by id
    nruns,      \* how many Run objects were constructed (uuid4 gives fresh ids)
    files,      \* the lobby directory: run id -> saved record, or NoFile
    lobby,      \* whether configure() designated a log directory (it did)
    begun,      \* history: the runs begun so far, in the order of the begin() calls
    outcome     \* how the last call ended: "ok" or the exception it raised

regvars == <<stack, anchors, runs, nruns, files, lobby, begun, outcome>>

VARIABLES
    \* ---- recorders/compute.py: one ComputeRecorder and its RunRecord ----
    cr,         \* the recorder's attributes and the cpu and memory sub-records
    samples     \* history: the measurements passed to update(), in order, each
                \* with whether start() had run before that update

recvars == <<cr, samples>>

VARIABLES
    \* ---- monitor.py: the Monitor objects, their threads and the caller ----
    monitor,    \* the module global _monitor: None or a Monitor's id
    nmon,       \* how many Monitor objects were constructed
    sock,       \* Monitor._signal, the REQ socket of each Monitor
    req,        \* the request waiting at each monitor thread's REP socket
    rep,        \* the reply waiting at each Monitor's REQ socket
    th,         \* each MonitorThread: its position in run() and its locals
    recs,       \* each Run's recorders: whether they were started, and whether
                \* they were given a measurement since the caller's last request
    waited,     \* for each monitor thread, the loop iterations it began while
                \* a request of the caller was waiting to be received
    cpc         \* the caller thread: the call it is in and the step it is at

monvars == <<monitor, nmon, sock, req, rep, th, recs, waited, cpc>>

VARIABLES
    \* ---- run.py: Run.save of one run, seen at the level of the file system ----
    inodes,     \* the content of each file created so far in the lobby
    tmpfile,    \* the file the name <run-id>.json.tmp refers to, or None
    runfile,    \* the file the name <run-id>.json refers to, or None
    wr,         \* the two threads that save the run: the position of each in
                \* save() and the file it has open
    onstack,    \* whether the run is in STATE._stack
    lock        \* the thread that holds STATE.lock, or "free"

savevars == <<inodes, tmpfile, runfile, wr, onstack, lock>>

VARIABLES
    \* ---- threads that share STATE and the Monitor ----
    fan,        \* the monitor thread inside _update_active or _save_active:
                \* which of the two, the index of the run it is at, and the
                \* run and the serialized status of a save in progress
    peer        \* a second caller thread: its position in refresh()

convars == <<fan, peer>>

NoFile == [status |-> "absent"]

\* A Run object that was not constructed yet.
NoRun ==
    [created |-> FALSE, is_anchor |-> FALSE, parent_id |-> None,
     root_id |-> None, anchor_id |-> None, status |-> Null,
     started |-> FALSE]

(***************************************************************************)
(* RunState (run.py 28-80).  The registry is the pair of stacks.           *)
(***************************************************************************)
Last(s) == s[Len(s)]
Front(s) == SubSeq(s, 1, Len(s) - 1)

\* RunState.root
root(st) == IF st # <<>> THEN st[1] ELSE None

\* a current() that returns the bottom of the stack
current_bottom(st) == IF st # <<>> THEN st[1] ELSE None

\* RunState.current
current(st) == IF st # <<>> THEN Last(st) ELSE None

\* RunState.anchor
anchor(an) == IF an # <<>> THEN Last(an) ELSE None

\* a push_run that makes no implicit anchor
push_run_explicit_only(st, an, run, isAnchor, parent) ==
    [stack   |-> Append(st, run),
     anchors |-> IF isAnchor THEN Append(an, run) ELSE an,
     err     |-> "ok"]

\* RunState.push_run: the registry after push_run(run, isAnchor); parent is
\* run.parent_id.
push_run(st, an, run, isAnchor, parent) ==
    [stack   |-> Append(st, run),
     anchors |-> IF isAnchor \/ (an = <<>> /\ parent = None)
                 THEN Append(an, run) ELSE an,
     err     |-> "ok"]

\* a pop_run that deletes the top entry before it compares it with run
pop_run_delete_first(st, an, run) ==
    IF st = <<>> THEN [stack |-> st, anchors |-> an, err |-> "IndexError"]
    ELSE [stack   |-> Front(st),
          anchors |-> IF an # <<>> /\ Last(an) = run THEN Front(an) ELSE an,
          err     |-> IF Last(st) # run THEN "RuntimeError" ELSE "ok"]

\* a pop_run that leaves the anchor stack alone
pop_run_keep_anchor(st, an, run) ==
    IF st = <<>> THEN [stack |-> st, anchors |-> an, err |-> "IndexError"]
    ELSE IF Last(st) # run
         THEN [stack |-> st, anchors |-> an, err |-> "RuntimeError"]
    ELSE [stack |-> Front(st), anchors |-> an, err |-> "ok"]

\* a pop_run that returns silently when run is not the top of the stack
pop_run_silent(st, an, run) ==
    IF st = <<>> \/ Last(st) # run
    THEN [stack |-> st, anchors |-> an, err |-> "ok"]
    ELSE [stack   |-> Front(st),
          anchors |-> IF an # <<>> /\ Last(an) = run THEN Front(an) ELSE an,
          err     |-> "ok"]

\* RunState.pop_run: the registry after pop_run(run), and the exception raised.
\* self._stack[-1] on an empty list raises IndexError.
pop_run(st, an, run) ==
    IF st = <<>> THEN [stack |-> st, anchors |-> an, err |-> "IndexError"]
    ELSE IF Last(st) # run
         THEN [stack |-> st, anchors |-> an, err |-> "RuntimeError"]
    ELSE [stack   |-> Front(st),
          anchors |-> IF an # <<>> /\ Last(an) = run THEN Front(an) ELSE an,
          err     |-> "ok"]

(***************************************************************************)
(* Run (run.py 83-236).                                                    *)
(***************************************************************************)
\* Run.__init__(parent=parent, anchor=isAnchor): the new Run object.
RunInit(st, an, id, parent, isAnchor) ==
    [NoRun EXCEPT
        !.created   = TRUE,
        !.is_anchor = isAnchor,
        !.parent_id = IF parent = None /\ current(st) # None
                      THEN current(st) ELSE parent,
        !.root_id   = root(st),
        !.anchor_id = anchor(an)]

\* Run.save: the lobby after the run's record was written and renamed.
\* status and end_time are written together (run.py 195-196); the saved record
\* keeps the status.
SaveRun(fs, hasLobby, id, rec) ==
    IF ~hasLobby THEN fs
    ELSE [fs EXCEPT ![id] = [status |-> rec.status]]

\* r = Run(parent=..., anchor=...)
NewRun(parent, isAnchor) ==
    /\ nruns < MaxRuns
    /\ nruns' = nruns + 1
    /\ runs' = [runs EXCEPT ![nruns + 1] =
                    RunInit(stack, anchors, nruns + 1, parent, isAnchor)]
    /\ outcome' = "ok"
    /\ UNCHANGED <<stack, anchors, files, lobby, begun>>
    /\ UNCHANGED <<recvars, monvars>>
    /\ UNCHANGED <<savevars, convars>>

\* r.begin(), no monitor being active
Begin(r) ==
    /\ runs[r].created
    /\ Len(begun) < MaxBegins
    /\ LET reg == push_run(stack, anchors, r, runs[r].is_anchor, runs[r].parent_id)
       IN /\ stack' = reg.stack
          /\ anchors' = reg.anchors
    /\ begun' = Append(begun, r)
    /\ runs' = [runs EXCEPT ![r].started = TRUE]
    /\ outcome' = "ok"
    /\ UNCHANGED <<nruns, files, lobby>>
    /\ UNCHANGED <<recvars, monvars>>
    /\ UNCHANGED <<savevars, convars>>

\* r.end(status), no monitor being active
End(r, status) ==
    /\ runs[r].created
    /\ LET reg == pop_run(stack, anchors, r)
       IN /\ stack' = reg.stack
          /\ anchors' = reg.anchors
          /\ outcome' = reg.err
          /\ IF reg.err = "ok"
             THEN /\ runs' = [runs EXCEPT ![r].status = status]
                  /\ files' = SaveRun(files, lobby, r, runs'[r])
             ELSE UNCHANGED <<runs, files>>
    /\ UNCHANGED <<nruns, lobby, begun>>
    /\ UNCHANGED <<recvars, monvars>>
    /\ UNCHANGED <<savevars, convars>>

\* the exception that leaves a with block: none, KeyboardInterrupt, another
\* subclass of Exception, or SystemExit
NoExc == "none"
Excs == {NoExc, "KeyboardInterrupt", "ValueError", "SystemExit"}

\* Run.end applied to the registry S = [stack, anchors, runs, files, outcome]
end(S, r, status) ==
    LET reg == pop_run(S.stack, S.anchors, r)
    IN IF reg.err # "ok" THEN [S EXCEPT !.outcome = reg.err]
       ELSE LET rs == [S.runs EXCEPT ![r].status = status]
            IN [stack |-> reg.stack, anchors |-> reg.anchors, runs |-> rs,
                files |-> SaveRun(S.files, lobby, r, rs[r]), outcome |-> "ok"]

\* end() called with each status of calls in turn, until one call raises
RECURSIVE end_all(_, _, _)
end_all(S, r, calls) ==
    IF calls = <<>> THEN S
    ELSE LET T == end(S, r, Head(calls))
         IN IF T.outcome # "ok" THEN T ELSE end_all(T, r, Tail(calls))

\* an __exit__ whose second test is an if, not an elif
exit_ends_twice(exc) ==
    (IF exc = "KeyboardInterrupt" THEN <<"aborted">> ELSE <<>>)
    \o (IF exc # NoExc THEN <<"failed">> ELSE <<"completed">>)

\* Run.__exit__: the end() calls it makes, by their status argument
exit_ends(exc) ==
    IF exc = "KeyboardInterrupt" THEN <<"aborted">>
    ELSE IF exc # NoExc THEN <<"failed">>
    ELSE <<"completed">>

\* with r: the block is entered (Run.__enter__)
Enter(r) == Begin(r)

\* with r: the block is left with exception exc (Run.__exit__).  A with
\* statement calls __exit__ once for each __enter__: a run that is no longer
\* on the stack has no block left to leave.
Exit(r, exc) ==
    /\ \E i \in DOMAIN stack : stack[i] = r
    /\ \E S \in {end_all([stack |-> stack, anchors |-> anchors, runs |-> runs,
                            files |-> files, outcome |-> "ok"], r, exit_ends(exc))} :
          /\ stack' = S.stack
          /\ anchors' = S.anchors
          /\ runs' = S.runs
          /\ files' = S.files
          /\ outcome' = S.outcome
    /\ UNCHANGED <<nruns, lobby, begun>>
    /\ UNCHANGED <<recvars, monvars>>
    /\ UNCHANGED <<savevars, convars>>

(***************************************************************************)
(* ComputeRecorder (recorders/compute.py 24-99).                           *)
(* Floats are modelled as exact rationals: a quotient is kept as the pair  *)
(* of its numerator and denominator.                                       *)
(***************************************************************************)
\* how many measurements one recorder is given
MaxSamples == 4

\* perf_counter() of the first measurement, and the time between measurements
FirstTimes == {0, 1}
Dts == {1, 2}
\* memory_info().rss readings
RssVals == {1, 2}
\* The readings one measurement can hold: the cpu_percent() pairs (sys_pct,
\* proc_pct) take every combination of {50, 60} and {10, 20}, and the memory
\* pairs (rss, shared) every combination of RssVals and {None, 1}; shared is
\* None where the platform's memory_info() has no such field.  update()
\* treats the two pairs independently of each other.
Readings ==
    {[sys_pct |-> 50, proc_pct |-> 10, rss |-> 1, shared |-> None],
     [sys_pct |-> 60, proc_pct |-> 20, rss |-> 2, shared |-> 1],
     [sys_pct |-> 50, proc_pct |-> 20, rss |-> 2, shared |-> None],
     [sys_pct |-> 60, proc_pct |-> 10, rss |-> 1, shared |-> 1]}

\* a statistic that was never written
Unset == [num |-> 0, den |-> 0]

\* ComputeRecorder.__init__ on a fresh RunRecord: cpu and memory are None and
\* the attribute _last_time does not exist yet.
NewRecorder ==
    [has_last_time |-> FALSE, last_time |-> 0,
     tot_time |-> 0, tot_proc_pct |-> 0, tot_sys_pct |-> 0,
     peak_rss |-> 0, peak_shared |-> 0,
     cpu |-> FALSE, avg_process_util |-> Unset, avg_system_util |-> Unset,
     memory |-> FALSE, mem_peak_rss |-> None, mem_peak_shared |-> None,
     max_rss |-> None]

\* ComputeRecorder.start: allocate the cpu and memory sub-records if absent.
start(self) == [self EXCEPT !.cpu = TRUE, !.memory = TRUE]

\* ComputeRecorder.finish: the process's ru_maxrss goes to memory.max_rss.
finish(self, ru_maxrss) ==
    IF self.memory THEN [self EXCEPT !.max_rss = ru_maxrss] ELSE self

\* a fold that records the latest resident set size, not the largest
fold_last_rss(self, metrics) ==
    LET diff == metrics.time - self.last_time
        tot  == self.tot_time + diff
        proc == self.tot_proc_pct + diff * metrics.proc_pct
        sys  == self.tot_sys_pct + diff * metrics.sys_pct
        newshared == /\ self.memory
                     /\ metrics.shared # None
                     /\ metrics.shared > self.peak_shared
    IN [self EXCEPT
          !.last_time = diff,
          !.tot_time = tot,
          !.tot_proc_pct = proc,
          !.tot_sys_pct = sys,
          !.avg_process_util = IF self.cpu THEN [num |-> proc, den |-> tot] ELSE @,
          !.avg_system_util = IF self.cpu THEN [num |-> sys, den |-> tot] ELSE @,
          !.peak_rss = IF self.memory THEN metrics.rss ELSE @,
          !.mem_peak_rss = IF self.memory THEN metrics.rss ELSE @,
          !.peak_shared = IF newshared THEN metrics.shared ELSE @,
          !.mem_peak_shared = IF newshared THEN metrics.shared ELSE @]

\* ComputeRecorder.update, lines 81-99: fold a measurement into the
\* accumulators once a baseline exists.  Line 83 stores diff, not metrics.time,
\* in _last_time.
fold(self, metrics) ==
    LET diff == metrics.time - self.last_time
        tot  == self.tot_time + diff
        proc == self.tot_proc_pct + diff * metrics.proc_pct
        sys  == self.tot_sys_pct + diff * metrics.sys_pct
        newrss == self.memory /\ metrics.rss > self.peak_rss
        newshared == /\ self.memory
                     /\ metrics.shared # None
                     /\ metrics.shared > self.peak_shared
    IN [self EXCEPT
          !.last_time = diff,
          !.tot_time = tot,
          !.tot_proc_pct = proc,
          !.tot_sys_pct = sys,
          !.avg_process_util = IF self.cpu THEN [num |-> proc, den |-> tot] ELSE @,
          !.avg_system_util = IF self.cpu THEN [num |-> sys, den |-> tot] ELSE @,
          !.peak_rss = IF newrss THEN metrics.rss ELSE @,
          !.mem_peak_rss = IF newrss THEN metrics.rss ELSE @,
          !.peak_shared = IF newshared THEN metrics.shared ELSE @,
          !.mem_peak_shared = IF newshared THEN metrics.shared ELSE @]

\* an update() that writes the sampled utilization on the first call too
update_no_baseline(self, metrics) ==
    IF ~self.has_last_time
    THEN [self EXCEPT
            !.has_last_time = TRUE,
            !.last_time = metrics.time,
            !.avg_process_util =
                IF self.cpu THEN [num |-> metrics.proc_pct, den |-> 1] ELSE @,
            !.avg_system_util =
                IF self.cpu THEN [num |-> metrics.sys_pct, den |-> 1] ELSE @]
    ELSE fold(self, metrics)

\* ComputeRecorder.update: the first call only records the baseline time.
update(self, metrics) ==
    IF ~self.has_last_time
    THEN [self EXCEPT !.has_last_time = TRUE, !.last_time = metrics.time]
    ELSE fold(self, metrics)

\* measure_compute: the measurements the probe can return after the ones in
\* ms; perf_counter() is strictly later at each call.
measure_compute(ms) ==
    {[time |-> t, sys_pct |-> m.sys_pct, proc_pct |-> m.proc_pct,
      rss |-> m.rss, shared |-> m.shared] :
        t \in (IF ms = <<>> THEN FirstTimes ELSE {Last(ms).m.time + d : d \in Dts}),
        m \in Readings}

\* compute_recorder.start(), called once by Run.begin
RecStart ==
    /\ ~cr.cpu
    /\ cr.max_rss = None
    /\ cr' = start(cr)
    /\ UNCHANGED samples
    /\ UNCHANGED <<regvars, monvars>>
    /\ UNCHANGED <<savevars, convars>>

\* compute_recorder.update(metrics), called by the monitor thread while the
\* run is active
RecUpdate(metrics) ==
    /\ Len(samples) < MaxSamples
    /\ cr.max_rss = None
    /\ cr' = update(cr, metrics)
    /\ samples' = Append(samples, [m |-> metrics, started |-> cr.cpu])
    /\ UNCHANGED <<regvars, monvars>>
    /\ UNCHANGED <<savevars, convars>>

\* compute_recorder.finish(), called once by Run.end; ru_maxrss is the
\* process's largest resident set size so far
RecFinish(ru_maxrss) ==
    /\ cr.cpu
    /\ cr.max_rss = None
    /\ \A i \in DOMAIN samples : ru_maxrss >= samples[i].m.rss
    /\ cr' = finish(cr, ru_maxrss)
    /\ UNCHANGED samples
    /\ UNCHANGED <<regvars, monvars>>
    /\ UNCHANGED <<savevars, convars>>

RecInit ==
    /\ cr = NewRecorder
    /\ samples = <<>>


(***************************************************************************)
(* Monitor and MonitorThread (monitor.py).  Time is counted in ticks of    *)
(* 10 ms; run() uses perf_counter() only in differences, so each thread's  *)
(* readings are counted from the thread's start, and a reading is any      *)
(* value not below the thread's last one.  A REQ socket is "ready" (it may *)
(* send), "sent" (it must receive the reply before it sends again) or      *)
(* "closed"; sending on a closed socket raises ZMQError.                   *)
(***************************************************************************)
\* number of Monitor objects the caller constructs while it also makes runs
MaxMonitors == 2
\* number of Monitor objects the caller constructs when it makes no runs
MaxRestarts == MaxMonitors + 1
\* the last tick of perf_counter() the model follows
MaxTime == 3
\* the most loop iterations a request should wait before it is received
IterBound == 2

MonIds == 1..MaxRestarts

\* Monitor(update_frequency=0.03, save_frequency=0.04), in ticks
UpdateFreq == 3
SaveFreq == 4
\* the 20 ms of MonitorThread.run, in ticks
Threshold == 2

Min(a, b) == IF a <= b THEN a ELSE b

\* a MonitorThread that was not started yet.  upd_at and sav_at are not in
\* the code: they record the reading of perf_counter() of the iteration that
\* made the most recent _update_active and _save_active call (the start of
\* run() before the first).
NoThread ==
    [pc |-> "none", active |-> TRUE, last_save |-> 0, last_update |-> 0,
     now |-> 0, reply |-> "", doUpdate |-> FALSE, doSave |-> FALSE,
     upd_at |-> 0, sav_at |-> 0]

\* MonitorThread.run, lines 111-119: the thread started at time t
StartThread(t) ==
    [NoThread EXCEPT !.pc = "top", !.last_save = t, !.last_update = t, !.now = t,
                     !.upd_at = t, !.sav_at = t]

\* a MonitorThread whose run() has returned (how) or died of an exception
EndedThread(how) == [NoThread EXCEPT !.pc = how, !.active = FALSE]

\* a Run's recorders before Run.begin started them
NoRecs == [started |-> FALSE, sampled |-> FALSE]

\* the caller thread between two calls
Idle == [op |-> "idle", step |-> "", m |-> None, r |-> None]

\* a _handle_signal that forces no update on "update"
handle_signal_no_update(msg, active) ==
    IF msg = "shutdown" THEN [reply |-> "goodbye", doUpdate |-> FALSE, active |-> FALSE]
    ELSE IF msg = "update" THEN [reply |-> "updated", doUpdate |-> FALSE, active |-> active]
    ELSE [reply |-> "", doUpdate |-> FALSE, active |-> active]

\* a _handle_signal that takes every message but "shutdown" for "update"
handle_signal_default_update(msg, active) ==
    IF msg = "shutdown" THEN [reply |-> "goodbye", doUpdate |-> FALSE, active |-> FALSE]
    ELSE [reply |-> "updated", doUpdate |-> TRUE, active |-> active]

\* MonitorThread._handle_signal: (reply, update) and self.active afterwards;
\* the reply "" stands for None.  doUpdate and doSave are run()'s locals
\* update and save.
handle_signal(msg, active) ==
    IF msg = "shutdown" THEN [reply |-> "goodbye", doUpdate |-> FALSE, active |-> FALSE]
    ELSE IF msg = "update" THEN [reply |-> "updated", doUpdate |-> TRUE, active |-> active]
    ELSE [reply |-> "", doUpdate |-> FALSE, active |-> active]

\* MonitorThread.run, lines 122-125: the poll timeout, from the value now had
\* at the end of the previous iteration
timeout(t) ==
    Min(SaveFreq - (t.now - t.last_save), UpdateFreq - (t.now - t.last_update))

\* MonitorThread.run, lines 139-145: whether a periodic update or save is due
update_due(t, now) == now - t.last_update - UpdateFreq > -Threshold
save_due(t, now) == now - t.last_save - SaveFreq > -Threshold

\* a run() that sends the reply before it updates and saves
NextStep_reply_first(doUpdate, doSave, reply) ==
    IF reply # "" THEN "reply"
    ELSE IF doUpdate THEN "update"
    ELSE IF doSave THEN "save"
    ELSE "top"

\* the step of run() that follows, given what the iteration still has to do:
\* lines 147-153 update, then save, then send the reply
NextStep(doUpdate, doSave, reply) ==
    IF doUpdate THEN "update"
    ELSE IF doSave THEN "save"
    ELSE IF reply # "" THEN "reply"
    ELSE "top"

\* MonitorThread.run, lines 131-145: the thread after the poll; ready says
\* whether a request was waiting.  now is read from perf_counter().
AfterPoll(t, ready, msg, now) ==
    LET sig == IF ready THEN handle_signal(msg, t.active)
               ELSE [reply |-> "", doUpdate |-> FALSE, active |-> t.active]
        upd == sig.doUpdate \/ update_due(t, now)
        sav == save_due(t, now)
    IN [t EXCEPT !.now = now, !.active = sig.active, !.reply = sig.reply,
                 !.doUpdate = upd, !.doSave = sav,
                 !.pc = NextStep(upd, sav, sig.reply)]

\* MonitorThread.run, lines 121-136, when the timeout is at most 20 ms: no
\* poll is made and ready is the empty dict.
SamplerTop(m) ==
    /\ th[m].pc = "top"
    /\ waited' = [waited EXCEPT ![m] =
                     IF th[m].active /\ req[m] # "" THEN Min(@ + 1, IterBound + 1)
                     ELSE @]
    /\ IF ~th[m].active
       THEN th' = [th EXCEPT ![m] = EndedThread("done")]
       ELSE IF timeout(th[m]) > Threshold
       THEN th' = [th EXCEPT ![m].pc = "poll"]
       ELSE \E now \in th[m].now..MaxTime :
               th' = [th EXCEPT ![m] = AfterPoll(th[m], FALSE, "", now)]
    /\ UNCHANGED <<monitor, nmon, sock, req, rep, recs, cpc>>
    /\ UNCHANGED <<regvars, recvars>>
    /\ UNCHANGED <<savevars, convars>>

\* poller.poll(timeout) returns: a request is waiting, or the timeout is over
\* (the poll began no earlier than the last reading of perf_counter())
SamplerPoll(m) ==
    /\ th[m].pc = "poll"
    /\ \E now \in th[m].now..MaxTime :
          /\ req[m] # "" \/ now >= th[m].now + timeout(th[m])
          /\ th' = [th EXCEPT ![m] = AfterPoll(th[m], req[m] # "", req[m], now)]
    /\ req' = [req EXCEPT ![m] = ""]
    /\ waited' = [waited EXCEPT ![m] = 0]
    /\ UNCHANGED <<monitor, nmon, sock, rep, recs, cpc>>
    /\ UNCHANGED <<regvars, recvars>>
    /\ UNCHANGED <<savevars, convars>>

\* the runs of the stack, from the bottom, up to the first whose time recorder
\* was not started: TimeRecorder.update raises AttributeError there
RECURSIVE Updatable(_, _)
Updatable(st, rs) ==
    IF st = <<>> THEN <<>>
    ELSE IF ~rs[st[1]].started THEN <<>>
    ELSE <<st[1]>> \o Updatable(Tail(st), rs)

Range(f) == {f[i] : i \in DOMAIN f}

\* MonitorThread._update_active: one measurement is taken and given to the
\* recorders of every active run, in stack order.  (What ComputeRecorder
\* makes of the measurements is followed in SpecRecorder.)
update_active(st, rs) ==
    [r \in DOMAIN rs |->
        IF r \in Range(Updatable(st, rs))
        THEN [rs[r] EXCEPT !.sampled = TRUE]
        ELSE rs[r]]

\* MonitorThread._save_active: every active run saves its record
RECURSIVE save_active(_, _, _, _)
save_active(st, fs, hasLobby, rs) ==
    IF st = <<>> THEN fs
    ELSE save_active(Tail(st), SaveRun(fs, hasLobby, st[1], rs[st[1]]), hasLobby, rs)

\* MonitorThread.run, lines 147-148
SamplerUpdate(m) ==
    /\ th[m].pc = "update"
    /\ recs' = update_active(stack, recs)
    /\ IF Len(Updatable(stack, recs)) < Len(stack)
       THEN th' = [th EXCEPT ![m] = EndedThread("crashed")]
       ELSE th' = [th EXCEPT ![m].doUpdate = FALSE,
                             ![m].upd_at = th[m].now,
                             ![m].pc = NextStep(FALSE, th[m].doSave, th[m].reply)]
    /\ UNCHANGED <<monitor, nmon, sock, req, rep, cpc>>
    /\ UNCHANGED <<regvars, recvars>>
    /\ UNCHANGED waited
    /\ UNCHANGED <<savevars, convars>>

\* MonitorThread.run, lines 149-150
SamplerSave(m) ==
    /\ th[m].pc = "save"
    /\ files' = save_active(stack, files, lobby, runs)
    /\ th' = [th EXCEPT ![m].doSave = FALSE,
                        ![m].sav_at = th[m].now,
                        ![m].pc = NextStep(th[m].doUpdate, FALSE, th[m].reply)]
    /\ UNCHANGED <<monitor, nmon, sock, req, rep, recs, cpc>>
    /\ UNCHANGED <<stack, anchors, runs, nruns, lobby, begun, outcome>>
    /\ UNCHANGED recvars
    /\ UNCHANGED waited
    /\ UNCHANGED <<savevars, convars>>

\* MonitorThread.run, lines 152-153
SamplerReply(m) ==
    /\ th[m].pc = "reply"
    /\ rep' = [rep EXCEPT ![m] = th[m].reply]
    /\ th' = [th EXCEPT ![m].reply = "",
                        ![m].pc = NextStep(th[m].doUpdate, th[m].doSave, "")]
    /\ UNCHANGED <<monitor, nmon, sock, req, recs, cpc>>
    /\ UNCHANGED <<regvars, recvars>>
    /\ UNCHANGED waited
    /\ UNCHANGED <<savevars, convars>>

\* a monitor thread that has not ended
Alive(m) == th[m].pc \notin {"none", "done", "crashed"}

(***************************************************************************)
(* The caller thread: Monitor(), refresh(), shutdown(), and with Run().    *)
(***************************************************************************)
\* Monitor.__init__, while fewer than max Monitor objects were constructed
NewMonitor(max) ==
    /\ cpc = Idle
    /\ nmon < max
    /\ IF monitor # None
       THEN /\ outcome' = "RuntimeError"
            /\ UNCHANGED <<monitor, nmon, sock, th>>
       ELSE /\ outcome' = "ok"
            /\ nmon' = nmon + 1
            /\ th' = [th EXCEPT ![nmon + 1] = StartThread(0)]
            /\ sock' = [sock EXCEPT ![nmon + 1] = "ready"]
            /\ monitor' = nmon + 1
    /\ UNCHANGED <<req, rep, recs, cpc>>
    /\ UNCHANGED <<stack, anchors, runs, nruns, files, lobby, begun>>
    /\ UNCHANGED recvars
    /\ UNCHANGED waited
    /\ UNCHANGED <<savevars, convars>>

\* a send that succeeds on a closed socket too
Send_on_closed(m, msg, op, r) ==
    /\ outcome' = "ok"
    /\ sock' = [sock EXCEPT ![m] = "sent"]
    /\ req' = [req EXCEPT ![m] = msg]
    /\ recs' = [x \in DOMAIN recs |-> [recs[x] EXCEPT !.sampled = FALSE]]
    /\ cpc' = [op |-> op, step |-> "recv", m |-> m, r |-> r]

\* self._signal.send(msg) by the caller in call op; after the reply the call
\* goes on for run r.  A closed socket raises ZMQError, and so does a REQ
\* socket whose last request (of another thread) was not answered yet.
Send(m, msg, op, r) ==
    IF sock[m] \in {"closed", "sent"}
    THEN /\ outcome' = "ZMQError"
         /\ cpc' = Idle
         /\ UNCHANGED <<sock, req, recs>>
    ELSE /\ outcome' = "ok"
         /\ sock' = [sock EXCEPT ![m] = "sent"]
         /\ req' = [req EXCEPT ![m] = msg]
         /\ recs' = [x \in DOMAIN recs |-> [recs[x] EXCEPT !.sampled = FALSE]]
         /\ cpc' = [op |-> op, step |-> "recv", m |-> m, r |-> r]

\* Monitor.refresh, line 74
Refresh(m) ==
    /\ cpc = Idle
    /\ m <= nmon
    /\ Send(m, "update", "refresh", None)
    /\ UNCHANGED <<monitor, nmon, rep, th>>
    /\ UNCHANGED <<stack, anchors, runs, nruns, files, lobby, begun>>
    /\ UNCHANGED recvars
    /\ UNCHANGED waited
    /\ UNCHANGED <<savevars, convars>>

\* a caller that sends another message than b"update" or b"shutdown" on the
\* Monitor's socket and waits for a reply
SendOther(m) ==
    /\ cpc = Idle
    /\ m <= nmon
    /\ Send(m, "ping", "other", None)
    /\ UNCHANGED <<monitor, nmon, rep, th, waited>>
    /\ UNCHANGED <<stack, anchors, runs, nruns, files, lobby, begun>>
    /\ UNCHANGED recvars
    /\ UNCHANGED <<savevars, convars>>

\* Monitor.refresh, lines 75-77: the reply is received
RefreshRecv(m) ==
    /\ cpc.op = "refresh" /\ cpc.step = "recv" /\ cpc.m = m
    /\ rep[m] # ""
    /\ rep' = [rep EXCEPT ![m] = ""]
    /\ sock' = [sock EXCEPT ![m] = "ready"]
    /\ cpc' = Idle
    /\ UNCHANGED <<monitor, nmon, req, th, recs>>
    /\ UNCHANGED <<regvars, recvars>>
    /\ UNCHANGED waited
    /\ UNCHANGED <<savevars, convars>>

\* what send() on the Monitor's REQ socket does while another thread waits
\* for the reply to its request: the socket refuses the send (ZMQError,
\* EFSM), or, the socket being used by two threads at once, libzmq aborts
\* the process
BusySend == {"raised", "aborted"}

\* Monitor.refresh, line 74, called by the second thread on the active monitor
PeerRefresh(m) ==
    /\ peer.step = "idle"
    /\ monitor = m
    /\ IF sock[m] = "ready"
       THEN /\ sock' = [sock EXCEPT ![m] = "sent"]
            /\ req' = [req EXCEPT ![m] = "update"]
            /\ recs' = [x \in DOMAIN recs |-> [recs[x] EXCEPT !.sampled = FALSE]]
            /\ peer' = [step |-> "recv", m |-> m, got |-> ""]
       ELSE /\ \E how \in BusySend : peer' = [step |-> how, m |-> m, got |-> ""]
            /\ UNCHANGED <<sock, req, recs>>
    /\ UNCHANGED <<monitor, nmon, rep, th, waited, cpc>>
    /\ UNCHANGED <<regvars, recvars, savevars>>
    /\ UNCHANGED fan

\* Monitor.refresh, lines 75-77, in the second thread: the reply is received
PeerRecv(m) ==
    /\ peer.step = "recv" /\ peer.m = m
    /\ rep[m] # ""
    /\ rep' = [rep EXCEPT ![m] = ""]
    /\ sock' = [sock EXCEPT ![m] = "ready"]
    /\ peer' = [step |-> "idle", m |-> None, got |-> rep[m]]
    /\ UNCHANGED <<monitor, nmon, req, th, recs, waited, cpc>>
    /\ UNCHANGED <<regvars, recvars, savevars>>
    /\ UNCHANGED fan

\* Monitor.shutdown, line 84; when send raises, lines 90-94 run
Shutdown(m) ==
    /\ cpc = Idle
    /\ m <= nmon
    /\ Send(m, "shutdown", "shutdown", None)
    /\ monitor' = IF sock[m] = "closed" THEN None ELSE monitor
    /\ UNCHANGED <<nmon, rep, th>>
    /\ UNCHANGED <<stack, anchors, runs, nruns, files, lobby, begun>>
    /\ UNCHANGED recvars
    /\ UNCHANGED waited
    /\ UNCHANGED <<savevars, convars>>

\* Monitor.shutdown, lines 85-86: the reply is received and the socket closed
ShutdownRecv(m) ==
    /\ cpc.op = "shutdown" /\ cpc.step = "recv" /\ cpc.m = m
    /\ rep[m] # ""
    /\ rep' = [rep EXCEPT ![m] = ""]
    /\ sock' = [sock EXCEPT ![m] = "closed"]
    /\ cpc' = [cpc EXCEPT !.step = "join"]
    /\ UNCHANGED <<monitor, nmon, req, th, recs>>
    /\ UNCHANGED <<regvars, recvars>>
    /\ UNCHANGED waited
    /\ UNCHANGED <<savevars, convars>>

\* Monitor.shutdown, lines 87-94: join() returns once the thread has ended
ShutdownJoin(m) ==
    /\ cpc.op = "shutdown" /\ cpc.step = "join" /\ cpc.m = m
    /\ th[m].pc \in {"done", "crashed"}
    /\ monitor' = None
    /\ cpc' = Idle
    /\ UNCHANGED <<nmon, sock, req, rep, th, recs>>
    /\ UNCHANGED <<regvars, recvars>>
    /\ UNCHANGED waited
    /\ UNCHANGED <<savevars, convars>>

\* with Run(): Run.__init__ and Run.begin up to push_run (line 169)
BeginPush ==
    /\ cpc = Idle
    /\ nruns < MaxRuns
    /\ LET r == nruns + 1
           run == RunInit(stack, anchors, r, None, FALSE)
           reg == push_run(stack, anchors, r, run.is_anchor, run.parent_id)
       IN /\ nruns' = r
          /\ runs' = [runs EXCEPT ![r] = run]
          /\ stack' = reg.stack
          /\ anchors' = reg.anchors
          /\ begun' = Append(begun, r)
          /\ cpc' = [op |-> "begin", step |-> "start", m |-> None, r |-> r]
    /\ outcome' = "ok"
    /\ UNCHANGED <<monitor, nmon, sock, req, rep, th, recs>>
    /\ UNCHANGED <<files, lobby>>
    /\ UNCHANGED recvars
    /\ UNCHANGED waited
    /\ UNCHANGED <<savevars, convars>>

\* Run.begin, lines 171-172: the recorders start
BeginStart ==
    /\ cpc.op = "begin" /\ cpc.step = "start"
    /\ recs' = [recs EXCEPT ![cpc.r].started = TRUE]
    /\ runs' = [runs EXCEPT ![cpc.r].started = TRUE]
    /\ cpc' = [cpc EXCEPT !.step = "send"]
    /\ UNCHANGED <<monitor, nmon, sock, req, rep, th>>
    /\ UNCHANGED <<stack, anchors, nruns, files, lobby, begun, outcome>>
    /\ UNCHANGED recvars
    /\ UNCHANGED waited
    /\ UNCHANGED <<savevars, convars>>

\* Run.begin, lines 174-176, and Run.end, lines 185-187: refresh the active
\* monitor, if there is one
RunRefresh ==
    /\ cpc.op \in {"begin", "end"} /\ cpc.step = "send"
    /\ IF monitor = None
       THEN /\ cpc' = IF cpc.op = "begin" THEN Idle ELSE [cpc EXCEPT !.step = "pop"]
            /\ UNCHANGED <<sock, req, recs, outcome>>
       ELSE Send(monitor, "update", cpc.op, cpc.r)
    /\ UNCHANGED <<monitor, nmon, rep, th>>
    /\ UNCHANGED <<stack, anchors, runs, nruns, files, lobby, begun>>
    /\ UNCHANGED recvars
    /\ UNCHANGED waited
    /\ UNCHANGED <<savevars, convars>>

\* Monitor.refresh, lines 75-77, called by Run.begin or Run.end
RunRefreshRecv ==
    /\ cpc.op \in {"begin", "end"} /\ cpc.step = "recv"
    /\ rep[cpc.m] # ""
    /\ rep' = [rep EXCEPT ![cpc.m] = ""]
    /\ sock' = [sock EXCEPT ![cpc.m] = "ready"]
    /\ cpc' = IF cpc.op = "begin" THEN Idle ELSE [cpc EXCEPT !.step = "pop"]
    /\ UNCHANGED <<monitor, nmon, req, th, recs>>
    /\ UNCHANGED <<regvars, recvars>>
    /\ UNCHANGED waited
    /\ UNCHANGED <<savevars, convars>>

\* the with block of the current run exits: Run.end is called
EndCall ==
    /\ cpc = Idle
    /\ stack # <<>>
    /\ cpc' = [op |-> "end", step |-> "send", m |-> None, r |-> current(stack)]
    /\ UNCHANGED <<monitor, nmon, sock, req, rep, th, recs>>
    /\ UNCHANGED <<regvars, recvars>>
    /\ UNCHANGED waited
    /\ UNCHANGED <<savevars, convars>>

\* Run.end, lines 189-198: pop the run, finish the recorders, set status and
\* end_time, save.  The with block exits normally: the status is "completed".
EndPop ==
    /\ cpc.op = "end" /\ cpc.step = "pop"
    /\ LET reg == pop_run(stack, anchors, cpc.r)
       IN /\ stack' = reg.stack
          /\ anchors' = reg.anchors
          /\ outcome' = reg.err
          /\ IF reg.err = "ok"
             THEN /\ runs' = [runs EXCEPT ![cpc.r].status = "completed"]
                  /\ files' = SaveRun(files, lobby, cpc.r, runs'[cpc.r])
             ELSE UNCHANGED <<runs, files>>
    /\ cpc' = Idle
    /\ UNCHANGED <<monitor, nmon, sock, req, rep, th, recs>>
    /\ UNCHANGED <<nruns, lobby, begun>>
    /\ UNCHANGED recvars
    /\ UNCHANGED waited
    /\ UNCHANGED <<savevars, convars>>

MonInit ==
    /\ monitor = None
    /\ nmon = 0
    /\ sock = [m \in MonIds |-> "none"]
    /\ req = [m \in MonIds |-> ""]
    /\ rep = [m \in MonIds |-> ""]
    /\ th = [m \in MonIds |-> NoThread]
    /\ recs = [r \in RunIds |-> NoRecs]
    /\ waited = [m \in MonIds |-> 0]
    /\ cpc = Idle

(***************************************************************************)
(* Run.save (run.py 200-213) step by step.  The run's record is saved by   *)
(* the caller thread "fg" (save() called directly, or by end() after       *)
(* pop_run) and by the monitor thread "bg" (_save_active, which holds      *)
(* STATE.lock while it saves the runs of the stack).  A file is "empty"    *)
(* from its creation or truncation by open(.., "w") until the text is      *)
(* written, and "record" when it holds one complete serialized record.     *)
(***************************************************************************)
\* how many files the saves may create in all
MaxFiles == 3

FileIds == 1..MaxFiles
Threads == {"fg", "bg"}

\* a thread that is not inside save()
NotSaving == [pc |-> "idle", fd |-> None]

\* tmpfile.write_text, its open(tmpfile, "w"): the name's file is truncated,
\* or a new file is created under the name
open_w(ino, tmp) ==
    IF tmp # None
    THEN [inodes |-> [ino EXCEPT ![tmp] = "empty"], tmpfile |-> tmp, fd |-> tmp]
    ELSE LET new == CHOOSE f \in FileIds : ino[f] = "none"
         IN [inodes |-> [ino EXCEPT ![new] = "empty"], tmpfile |-> new, fd |-> new]

\* tmpfile.rename(runfile): the name runfile now refers to tmpfile's file;
\* FileNotFoundError when the name tmpfile does not exist
rename(tmp, final) ==
    IF tmp = None
    THEN [tmpfile |-> tmp, runfile |-> final, err |-> "FileNotFoundError"]
    ELSE [tmpfile |-> None, runfile |-> tmp, err |-> "ok"]

\* the process is alive
Running == \A t \in Threads : wr[t].pc # "killed"

\* run.save() called by the caller thread, with or without the run on the stack
FgSave ==
    /\ wr["fg"].pc = "idle"
    /\ \E f \in FileIds : inodes[f] = "none"
    /\ wr' = [wr EXCEPT !["fg"].pc = "open"]
    /\ UNCHANGED <<inodes, tmpfile, runfile, onstack, lock>>
    /\ UNCHANGED <<regvars, recvars, monvars, convars>>

\* Run.end, lines 190-198: pop_run under the lock, then save()
FgEnd ==
    /\ wr["fg"].pc = "idle"
    /\ onstack
    /\ lock = "free"
    /\ \E f \in FileIds : inodes[f] = "none"
    /\ onstack' = FALSE
    /\ wr' = [wr EXCEPT !["fg"].pc = "open"]
    /\ UNCHANGED <<inodes, tmpfile, runfile, lock>>
    /\ UNCHANGED <<regvars, recvars, monvars, convars>>

\* MonitorThread._save_active: take STATE.lock and save the run if it is on
\* the stack
BgSave ==
    /\ wr["bg"].pc = "idle"
    /\ lock = "free"
    /\ onstack
    /\ \E f \in FileIds : inodes[f] = "none"
    /\ lock' = "bg"
    /\ wr' = [wr EXCEPT !["bg"].pc = "open"]
    /\ UNCHANGED <<inodes, tmpfile, runfile, onstack>>
    /\ UNCHANGED <<regvars, recvars, monvars, convars>>

\* write_text opens the temporary file for writing
SaveOpen(t) ==
    /\ wr[t].pc = "open"
    /\ tmpfile # None \/ \E f \in FileIds : inodes[f] = "none"
    /\ LET o == open_w(inodes, tmpfile)
       IN /\ inodes' = o.inodes
          /\ tmpfile' = o.tmpfile
          /\ wr' = [wr EXCEPT ![t] = [pc |-> "write", fd |-> o.fd]]
    /\ UNCHANGED <<runfile, onstack, lock>>
    /\ UNCHANGED <<regvars, recvars, monvars, convars>>

\* write_text writes the serialized record and closes the file
SaveWrite(t) ==
    /\ wr[t].pc = "write"
    /\ inodes' = [inodes EXCEPT ![wr[t].fd] = "record"]
    /\ wr' = [wr EXCEPT ![t] = [pc |-> "rename", fd |-> None]]
    /\ UNCHANGED <<tmpfile, runfile, onstack, lock>>
    /\ UNCHANGED <<regvars, recvars, monvars, convars>>

\* tmpfile.rename(runfile); save() returns or raises, and the monitor thread
\* leaves the with block of _save_active (it ends if save() raised)
SaveRename(t) ==
    /\ wr[t].pc = "rename"
    /\ LET n == rename(tmpfile, runfile)
       IN /\ tmpfile' = n.tmpfile
          /\ runfile' = n.runfile
          /\ wr' = [wr EXCEPT ![t].pc =
                       IF n.err # "ok" /\ t = "bg" THEN "raised" ELSE "idle"]
    /\ lock' = IF t = "bg" THEN "free" ELSE lock
    /\ UNCHANGED <<inodes, onstack>>
    /\ UNCHANGED <<regvars, recvars, monvars, convars>>

\* the process is killed at any point
Kill ==
    /\ Running
    /\ wr' = [t \in Threads |-> [wr[t] EXCEPT !.pc = "killed"]]
    /\ UNCHANGED <<inodes, tmpfile, runfile, onstack, lock>>
    /\ UNCHANGED <<regvars, recvars, monvars, convars>>

\* an active run that was never saved
SaveInit ==
    /\ inodes = [f \in FileIds |-> "none"]
    /\ tmpfile = None
    /\ runfile = None
    /\ wr = [t \in Threads |-> NotSaving]
    /\ onstack = TRUE
    /\ lock = "free"

(***************************************************************************)
(* Run.begin and Run.end of the caller thread step by step, against the    *)
(* fan-outs of the monitor thread (_update_active, _save_active), which    *)
(* hold STATE.lock.  The monitor thread may begin a fan-out at any time:   *)
(* periodic and forced updates and periodic saves are not told apart.      *)
(***************************************************************************)
\* an acquire that never waits
acquire_unlocked(lk, t) == TRUE

\* STATE.lock.acquire() by thread t returns: the RLock is free or t's own
acquire(lk, t) == lk \in {"free", t}

\* an end() that sets the status before it pops the run
end_steps_status_first == <<"status", "pop", "finish", "save">>

\* Run.end, lines 190-198, after the refresh: pop_run, the recorders' finish,
\* status and end_time, save
end_steps == <<"pop", "finish", "status", "save">>

\* the caller thread after the step of end() it is at
AfterEndStep(c) ==
    LET i == CHOOSE k \in DOMAIN end_steps : end_steps[k] = c.step
    IN IF i = Len(end_steps) THEN Idle ELSE [c EXCEPT !.step = end_steps[i + 1]]

\* the monitor thread outside the fan-outs
NoFan == [kind |-> "none", i |-> 0, r |-> None, snap |-> ""]

\* r = Run(); r.begin(), lines 158-169: the run is pushed
RunBegin ==
    /\ cpc = Idle
    /\ nruns < MaxRuns
    /\ acquire(lock, "fg")
    /\ LET r == nruns + 1
           run == RunInit(stack, anchors, r, None, FALSE)
           reg == push_run(stack, anchors, r, run.is_anchor, run.parent_id)
       IN /\ nruns' = r
          /\ runs' = [runs EXCEPT ![r] = run]
          /\ stack' = reg.stack
          /\ anchors' = reg.anchors
          /\ begun' = Append(begun, r)
          /\ cpc' = [op |-> "begin", step |-> "start", m |-> None, r |-> r]
    /\ outcome' = "ok"
    /\ UNCHANGED <<files, lobby>>
    /\ UNCHANGED <<monitor, nmon, sock, req, rep, th, recs, waited>>
    /\ UNCHANGED <<recvars, savevars, convars>>

\* Run.begin, lines 171-172: the recorders start
RunStart ==
    /\ cpc.op = "begin" /\ cpc.step = "start"
    /\ recs' = [recs EXCEPT ![cpc.r].started = TRUE]
    /\ runs' = [runs EXCEPT ![cpc.r].started = TRUE]
    /\ cpc' = Idle
    /\ UNCHANGED <<stack, anchors, nruns, files, lobby, begun, outcome>>
    /\ UNCHANGED <<monitor, nmon, sock, req, rep, th, waited>>
    /\ UNCHANGED <<recvars, savevars, convars>>

\* the current run's end() is called
RunEnd ==
    /\ cpc = Idle
    /\ stack # <<>>
    /\ cpc' = [op |-> "end", step |-> end_steps[1], m |-> None, r |-> current(stack)]
    /\ UNCHANGED <<monitor, nmon, sock, req, rep, th, recs, waited>>
    /\ UNCHANGED <<regvars, recvars, savevars, convars>>

\* Run.end, line 190: STATE.pop_run(self)
EndPopped ==
    /\ cpc.op = "end" /\ cpc.step = "pop"
    /\ acquire(lock, "fg")
    /\ LET reg == pop_run(stack, anchors, cpc.r)
       IN /\ stack' = reg.stack
          /\ anchors' = reg.anchors
          /\ outcome' = reg.err
          /\ cpc' = IF reg.err = "ok" THEN AfterEndStep(cpc) ELSE Idle
    /\ UNCHANGED <<runs, nruns, files, lobby, begun>>
    /\ UNCHANGED <<monitor, nmon, sock, req, rep, th, recs, waited>>
    /\ UNCHANGED <<recvars, savevars, convars>>

\* Run.end, lines 192-193: the recorders finish (max_rss is written)
EndFinish ==
    /\ cpc.op = "end" /\ cpc.step = "finish"
    /\ cpc' = AfterEndStep(cpc)
    /\ UNCHANGED <<monitor, nmon, sock, req, rep, th, recs, waited>>
    /\ UNCHANGED <<regvars, recvars, savevars, convars>>

\* Run.end, lines 195-196: status and end_time are set
EndStatus(status) ==
    /\ cpc.op = "end" /\ cpc.step = "status"
    /\ runs' = [runs EXCEPT ![cpc.r].status = status]
    /\ cpc' = AfterEndStep(cpc)
    /\ UNCHANGED <<stack, anchors, nruns, files, lobby, begun, outcome>>
    /\ UNCHANGED <<monitor, nmon, sock, req, rep, th, recs, waited>>
    /\ UNCHANGED <<recvars, savevars, convars>>

\* Run.end, line 198: the final save
EndSave ==
    /\ cpc.op = "end" /\ cpc.step = "save"
    /\ files' = SaveRun(files, lobby, cpc.r, runs[cpc.r])
    /\ cpc' = AfterEndStep(cpc)
    /\ UNCHANGED <<stack, anchors, runs, nruns, lobby, begun, outcome>>
    /\ UNCHANGED <<monitor, nmon, sock, req, rep, th, recs, waited>>
    /\ UNCHANGED <<recvars, savevars, convars>>

\* _update_active or _save_active enters its with STATE.lock block
FanOut(kind) ==
    /\ fan.kind = "none"
    /\ acquire(lock, "bg")
    /\ lock' = "bg"
    /\ fan' = [NoFan EXCEPT !.kind = kind, !.i = 1]
    /\ UNCHANGED <<inodes, tmpfile, runfile, wr, onstack, peer>>
    /\ UNCHANGED <<regvars, recvars, monvars>>

\* _update_active, lines 175-176: the recorders of the next run of the stack
\* are updated; TimeRecorder.update raises on a recorder that was not
\* started, the lock is released and the thread ends
FanUpdate ==
    /\ fan.kind = "update"
    /\ fan.i <= Len(stack)
    /\ IF recs[stack[fan.i]].started
       THEN /\ recs' = [recs EXCEPT ![stack[fan.i]].sampled = TRUE]
            /\ fan' = [fan EXCEPT !.i = @ + 1]
            /\ UNCHANGED lock
       ELSE /\ fan' = [NoFan EXCEPT !.kind = "crashed"]
            /\ lock' = "free"
            /\ UNCHANGED recs
    /\ UNCHANGED <<monitor, nmon, sock, req, rep, th, waited, cpc>>
    /\ UNCHANGED <<inodes, tmpfile, runfile, wr, onstack, peer>>
    /\ UNCHANGED <<regvars, recvars>>

\* _save_active, line 181, and Run.save, line 212: the record of the next run
\* of the stack is serialized
FanDump ==
    /\ fan.kind = "save"
    /\ fan.snap = ""
    /\ fan.i <= Len(stack)
    /\ fan' = [fan EXCEPT !.r = stack[fan.i], !.snap = runs[stack[fan.i]].status]
    /\ UNCHANGED <<inodes, tmpfile, runfile, wr, onstack, lock, peer>>
    /\ UNCHANGED <<regvars, recvars, monvars>>

\* Run.save, lines 212-213: the serialized record is written and renamed
FanWrite ==
    /\ fan.kind = "save"
    /\ fan.snap # ""
    /\ files' = SaveRun(files, lobby, fan.r, [status |-> fan.snap])
    /\ fan' = [fan EXCEPT !.i = @ + 1, !.r = None, !.snap = ""]
    /\ UNCHANGED <<stack, anchors, runs, nruns, lobby, begun, outcome>>
    /\ UNCHANGED <<inodes, tmpfile, runfile, wr, onstack, lock, peer>>
    /\ UNCHANGED <<recvars, monvars>>

\* the for loop is over and the with block is left
FanDone ==
    /\ fan.kind \in {"update", "save"}
    /\ fan.snap = ""
    /\ fan.i > Len(stack)
    /\ fan' = NoFan
    /\ lock' = "free"
    /\ UNCHANGED <<inodes, tmpfile, runfile, wr, onstack, peer>>
    /\ UNCHANGED <<regvars, recvars, monvars>>

\* a second caller thread that is not inside refresh()
PeerIdle == [step |-> "idle", m |-> None, got |-> ""]

ConInit ==
    /\ fan = NoFan
    /\ peer = PeerIdle

RegInit ==
    /\ stack = <<>>
    /\ anchors = <<>>
    /\ runs = [r \in RunIds |-> NoRun]
    /\ nruns = 0
    /\ files = [r \in RunIds |-> NoFile]
    /\ lobby = TRUE
    /\ begun = <<>>
    /\ outcome = "ok"

vars == <<regvars, recvars, monvars, savevars, convars>>

\* One caller thread and the registry; no monitor is active.
Init == RegInit /\ RecInit /\ MonInit /\ SaveInit /\ ConInit
Next ==
    \/ \E parent \in {None, ExtParent}, isAnchor \in BOOLEAN : NewRun(parent, isAnchor)
    \/ \E r \in RunIds : Begin(r)
    \/ \E r \in RunIds, status \in RunStatus : End(r, status)
Spec == Init /\ [][Next]_vars

\* One ComputeRecorder and the measurements it is given.
InitRecorder == RegInit /\ RecInit /\ MonInit /\ SaveInit /\ ConInit
NextRecorder ==
    \/ RecStart
    \/ \E metrics \in measure_compute(samples) : RecUpdate(metrics)
    \/ \E ru_maxrss \in RssVals : RecFinish(ru_maxrss)
SpecRecorder == InitRecorder /\ [][NextRecorder]_vars

\* One caller thread that uses runs as with blocks only, no monitor being
\* active.
InitScope == RegInit /\ RecInit /\ MonInit /\ SaveInit /\ ConInit
NextScope ==
    \/ \E parent \in {None, ExtParent}, isAnchor \in BOOLEAN : NewRun(parent, isAnchor)
    \/ \E r \in RunIds : Enter(r)
    \/ \E r \in RunIds, exc \in Excs : Exit(r, exc)
SpecScope == InitScope /\ [][NextScope]_vars

\* One caller thread, the monitors it constructs and their threads.
InitMonitor == RegInit /\ RecInit /\ MonInit /\ SaveInit /\ ConInit
NextMonitor ==
    \/ NewMonitor(MaxMonitors)
    \/ \E m \in MonIds : Refresh(m)
    \/ \E m \in MonIds : RefreshRecv(m)
    \/ \E m \in MonIds : Shutdown(m)
    \/ \E m \in MonIds : ShutdownRecv(m)
    \/ \E m \in MonIds : ShutdownJoin(m)
    \/ BeginPush
    \/ BeginStart
    \/ RunRefresh
    \/ RunRefreshRecv
    \/ EndCall
    \/ EndPop
    \/ \E m \in MonIds : SamplerTop(m)
    \/ \E m \in MonIds : SamplerPoll(m)
    \/ \E m \in MonIds : SamplerUpdate(m)
    \/ \E m \in MonIds : SamplerSave(m)
    \/ \E m \in MonIds : SamplerReply(m)
SpecMonitor == InitMonitor /\ [][NextMonitor]_vars

\* One caller thread that constructs a monitor, makes runs inside with blocks
\* and may send a message the monitor thread does not know, and the thread.
InitSignal == RegInit /\ RecInit /\ MonInit /\ SaveInit /\ ConInit
NextSignal ==
    \/ NewMonitor(MaxMonitors)
    \/ \E m \in MonIds : SendOther(m)
    \/ BeginPush
    \/ BeginStart
    \/ RunRefresh
    \/ RunRefreshRecv
    \/ EndCall
    \/ EndPop
    \/ \E m \in MonIds : SamplerTop(m)
    \/ \E m \in MonIds : SamplerPoll(m)
    \/ \E m \in MonIds : SamplerUpdate(m)
    \/ \E m \in MonIds : SamplerSave(m)
    \/ \E m \in MonIds : SamplerReply(m)
SpecSignal == InitSignal /\ [][NextSignal]_vars

\* Two caller threads that share one monitor: the first makes runs inside
\* with blocks and calls refresh(), the second calls refresh().
InitShared == RegInit /\ RecInit /\ MonInit /\ SaveInit /\ ConInit
NextShared ==
    \/ NewMonitor(MaxMonitors)
    \/ \E m \in MonIds : Refresh(m)
    \/ \E m \in MonIds : RefreshRecv(m)
    \/ \E m \in MonIds : PeerRefresh(m)
    \/ \E m \in MonIds : PeerRecv(m)
    \/ BeginPush
    \/ BeginStart
    \/ RunRefresh
    \/ RunRefreshRecv
    \/ EndCall
    \/ EndPop
    \/ \E m \in MonIds : SamplerTop(m)
    \/ \E m \in MonIds : SamplerPoll(m)
    \/ \E m \in MonIds : SamplerUpdate(m)
    \/ \E m \in MonIds : SamplerSave(m)
    \/ \E m \in MonIds : SamplerReply(m)
SpecShared == InitShared /\ [][NextShared]_vars

\* One caller thread that begins and ends runs, and the fan-outs of the
\* monitor thread.
InitFanOut == RegInit /\ RecInit /\ MonInit /\ SaveInit /\ ConInit
NextFanOut ==
    \/ RunBegin
    \/ RunStart
    \/ RunEnd
    \/ EndPopped
    \/ EndFinish
    \/ \E status \in RunStatus : EndStatus(status)
    \/ EndSave
    \/ \E kind \in {"update", "save"} : FanOut(kind)
    \/ FanUpdate
    \/ FanDump
    \/ FanWrite
    \/ FanDone
SpecFanOut == InitFanOut /\ [][NextFanOut]_vars

\* One caller thread that constructs, refreshes and shuts down monitors, and
\* makes no runs.
InitRestart == RegInit /\ RecInit /\ MonInit /\ SaveInit /\ ConInit
NextRestart ==
    \/ NewMonitor(MaxRestarts)
    \/ \E m \in MonIds : Refresh(m)
    \/ \E m \in MonIds : RefreshRecv(m)
    \/ \E m \in MonIds : Shutdown(m)
    \/ \E m \in MonIds : ShutdownRecv(m)
    \/ \E m \in MonIds : ShutdownJoin(m)
    \/ \E m \in MonIds : SamplerTop(m)
    \/ \E m \in MonIds : SamplerPoll(m)
    \/ \E m \in MonIds : SamplerUpdate(m)
    \/ \E m \in MonIds : SamplerSave(m)
    \/ \E m \in MonIds : SamplerReply(m)
SpecRestart == InitRestart /\ [][NextRestart]_vars

\* The caller thread and the monitor thread save the record of one run.
InitSave == RegInit /\ RecInit /\ MonInit /\ SaveInit /\ ConInit
NextSave ==
    \/ FgSave
    \/ FgEnd
    \/ BgSave
    \/ \E t \in Threads : SaveOpen(t)
    \/ \E t \in Threads : SaveWrite(t)
    \/ \E t \in Threads : SaveRename(t)
    \/ Kill
SpecSave == InitSave /\ [][NextSave]_vars

(***************************************************************************)
(* Claims about the registry, under Spec.                                  *)
(***************************************************************************)
\* no Run object was begun twice so far
BegunOnce == \A i, j \in DOMAIN begun : i # j => begun[i] # begun[j]

\* the runs begun and not ended by end(), in the order of their begin() calls
RECURSIVE LiveRuns(_)
LiveRuns(s) ==
    IF s = <<>> THEN <<>>
    ELSE IF runs[Last(s)].status = Null
         THEN Append(LiveRuns(Front(s)), Last(s))
         ELSE LiveRuns(Front(s))

MostRecentLive == IF LiveRuns(begun) = <<>> THEN None ELSE Last(LiveRuns(begun))

\* C1: as long as every run is begun at most once (end() of a run that is not
\* current raises and changes nothing), current() is after each call the most
\* recently begun run that end() has not ended, and None when there is none.
C1_CurrentIsMostRecentLive == BegunOnce => current(stack) = MostRecentLive

\* C1 witness: two nested runs were begun and the inner one has ended, so the
\* outer one is current again.
C1_Witness ==
    /\ BegunOnce
    /\ Len(begun) = 2
    /\ runs[begun[2]].status # Null
    /\ runs[begun[1]].status = Null
    /\ current(stack) = begun[1]

\* C2: end(r) of a run that is not the top of the stack (the empty stack
\* included) raises in pop_run and leaves both stacks as they were.
C2_PopNonTopFails ==
    [][\A r \in RunIds :
          ((\E s \in RunStatus : End(r, s)) /\ current(stack) # r)
              => /\ outcome' \in {"RuntimeError", "IndexError"}
                 /\ stack' = stack
                 /\ anchors' = anchors]_vars

\* C2 witness: a pop of a non-current run has just failed with a run active.
C2_Witness == outcome = "RuntimeError" /\ stack # <<>> /\ anchors # <<>>

\* C3: a parentless run begun on the empty registry has root_id and anchor_id
\* equal to its own id, and a child created and begun while that root is the
\* only active run has root_id and anchor_id equal to the root's id.
C3_RootAndChildIds ==
    /\ \A r \in RunIds :
          (stack = <<r>> /\ anchors = <<r>> /\ runs[r].parent_id = None)
              => (runs[r].root_id = r /\ runs[r].anchor_id = r)
    /\ \A r, c \in RunIds :
          (stack = <<r, c>> /\ runs[r].parent_id = None /\ runs[c].parent_id = r)
              => (runs[c].root_id = r /\ runs[c].anchor_id = r)

(***************************************************************************)
(* Claims about ComputeRecorder.update, under SpecRecorder.                *)
(***************************************************************************)
\* sum over i = 2..Len(ms) of (t_i - t_(i-1)) * pct_i
RECURSIVE WeightedProc(_)
WeightedProc(ms) ==
    IF Len(ms) < 2 THEN 0
    ELSE WeightedProc(Front(ms))
         + (Last(ms).m.time - ms[Len(ms) - 1].m.time) * Last(ms).m.proc_pct

RECURSIVE WeightedSys(_)
WeightedSys(ms) ==
    IF Len(ms) < 2 THEN 0
    ELSE WeightedSys(Front(ms))
         + (Last(ms).m.time - ms[Len(ms) - 1].m.time) * Last(ms).m.sys_pct

Elapsed(ms) == Last(ms).m.time - ms[1].m.time

\* the recorder had its cpu sub-record at every update from the second on
StartedFromSecond(ms) == \A i \in 2..Len(ms) : ms[i].started

\* C9: after n >= 2 updates with increasing times, totalTime = tn - t1 and the
\* two averages are the time-weighted sums divided by tn - t1.
C9_TimeWeightedAverage ==
    (Len(samples) >= 2 /\ StartedFromSecond(samples)) =>
        /\ cr.tot_time = Elapsed(samples)
        /\ cr.avg_process_util.den # 0
        /\ cr.avg_process_util.num * Elapsed(samples)
               = WeightedProc(samples) * cr.avg_process_util.den
        /\ cr.avg_system_util.den # 0
        /\ cr.avg_system_util.num * Elapsed(samples)
               = WeightedSys(samples) * cr.avg_system_util.den

\* C10: the first update records the sample time as baseline and writes no
\* utilization statistic; after one further update of a started recorder the
\* two averages are the second sample's utilizations.
C10_BaselineThenSample ==
    /\ Len(samples) = 0 =>
          ~cr.has_last_time
    /\ Len(samples) <= 1 =>
          /\ cr.avg_process_util = Unset
          /\ cr.avg_system_util = Unset
          /\ cr.tot_time = 0
    /\ Len(samples) = 1 =>
          /\ cr.has_last_time
          /\ cr.last_time = samples[1].m.time
    /\ (Len(samples) = 2 /\ samples[2].started) =>
          /\ cr.avg_process_util.den # 0
          /\ cr.avg_process_util.num
                 = samples[2].m.proc_pct * cr.avg_process_util.den
          /\ cr.avg_system_util.den # 0
          /\ cr.avg_system_util.num
                 = samples[2].m.sys_pct * cr.avg_system_util.den

\* C10 witness: a started recorder got two samples that differ in both
\* utilizations, the second two time units after the first.
C10_Witness ==
    /\ Len(samples) = 2
    /\ samples[1].started
    /\ samples[2].started
    /\ samples[2].m.time = samples[1].m.time + 2
    /\ samples[1].m.proc_pct # samples[2].m.proc_pct
    /\ samples[1].m.sys_pct # samples[2].m.sys_pct
    /\ cr.avg_process_util = [num |-> 2 * samples[2].m.proc_pct, den |-> 2]


(***************************************************************************)
(* Claims about the monitor, under SpecMonitor; C8 under SpecRestart.      *)
(***************************************************************************)
\* C4: while the reply "updated" of monitor m is on its way to the caller
\* (refresh() returns by receiving it), the recorders of every run on the
\* stack were given a measurement taken after the request was sent.
C4_AckAfterUpdate ==
    \A m \in MonIds :
        rep[m] = "updated" => \A r \in Range(stack) : recs[r].sampled

\* two nested runs are active and the acknowledgment of a refresh is on its way
C4_Witness ==
    \E m \in MonIds :
        /\ rep[m] = "updated"
        /\ Len(stack) = 2
        /\ \A r \in Range(stack) : recs[r].sampled

\* C5: a request that waits to be received is received within IterBound loop
\* iterations of the monitor thread, whenever it was sent.
C5_RequestReceivedInTime == \A m \in MonIds : waited[m] <= IterBound

\* shutdown() on monitor m has returned
ShutdownDone(m) == sock[m] = "closed" /\ ~(cpc.op = "shutdown" /\ cpc.m = m)

\* C6: the reply "goodbye" is sent when the update and the save of the
\* iteration that handled the shutdown are done; a thread told to shut down
\* polls no more; and once shutdown() has returned the thread has left run(),
\* so that none of its steps, update and save among them, can be taken.
C6_ShutdownTerminal ==
    \A m \in MonIds :
        /\ rep[m] = "goodbye" => ~th[m].doUpdate /\ ~th[m].doSave /\ ~th[m].active
        /\ ~th[m].active => th[m].pc # "poll"
        /\ ShutdownDone(m) => /\ th[m].pc = "done"
                              /\ ~ENABLED SamplerUpdate(m)
                              /\ ~ENABLED SamplerSave(m)

\* the shutdown of the only monitor has returned, and the iteration that
\* handled it gave a measurement to an active run before it said goodbye
C6_Witness ==
    /\ nmon = 1
    /\ ShutdownDone(1)
    /\ \E r \in Range(stack) : recs[r].sampled

\* C7: refresh() or shutdown() on a monitor whose shutdown() has returned
\* raises ZMQError and leaves the caller free: it does not wait for a reply.
C7_AfterShutdownCallsFail ==
    [][\A m \in MonIds :
          (ShutdownDone(m) /\ (Refresh(m) \/ Shutdown(m)))
              => (outcome' = "ZMQError" /\ cpc' = Idle)]_vars

\* a call on a shut down monitor has just raised
C7_Witness ==
    /\ outcome = "ZMQError"
    /\ cpc = Idle
    /\ \E m \in MonIds : ShutdownDone(m)

\* C8: at most one monitor thread is running at any time.
C8_AtMostOneSampler == Cardinality({m \in MonIds : Alive(m)}) <= 1

(***************************************************************************)
(* Further claims about ComputeRecorder.update, under SpecRecorder.        *)
(***************************************************************************)
\* the largest of a non-empty set of numbers
Largest(S) == CHOOSE x \in S : \A y \in S : x >= y

\* the recorder was started before its first update, as Run.begin does
StartedFromFirst(ms) == \A i \in DOMAIN ms : ms[i].started

\* a peak of the memory sub-record as a number, None counting as 0
PeakValue(p) == IF p = None THEN 0 ELSE p

\* C11: the peaks of the memory sub-record never decrease; once written they
\* equal the recorder's internal peaks; and for a recorder started before its
\* first update peak_rss is the largest rss of the samples after the first
\* (unset while there is none).
C11_PeaksMonotonic ==
    /\ [](/\ cr.mem_peak_rss # None => cr.mem_peak_rss = cr.peak_rss
          /\ cr.mem_peak_shared # None => cr.mem_peak_shared = cr.peak_shared
          /\ (StartedFromFirst(samples) /\ Len(samples) >= 2) =>
                cr.mem_peak_rss
                    = Largest({samples[i].m.rss : i \in 2..Len(samples)})
          /\ (StartedFromFirst(samples) /\ Len(samples) <= 1) =>
                cr.mem_peak_rss = None)
    /\ [][/\ PeakValue(cr'.mem_peak_rss) >= PeakValue(cr.mem_peak_rss)
          /\ PeakValue(cr'.mem_peak_shared) >= PeakValue(cr.mem_peak_shared)
          /\ cr'.peak_rss >= cr.peak_rss
          /\ cr'.peak_shared >= cr.peak_shared]_vars

\* C11 witness: a started recorder saw the resident set size fall after its
\* peak and kept the peak
C11_Witness ==
    /\ Len(samples) = 3
    /\ StartedFromFirst(samples)
    /\ samples[2].m.rss = 2
    /\ samples[3].m.rss = 1
    /\ cr.mem_peak_rss = 2

(***************************************************************************)
(* Claims about Run.save, under SpecSave.                                  *)
(***************************************************************************)
\* C12: the name <run-id>.json is absent or refers to a file that holds one
\* complete serialized record, whatever the threads are doing and wherever
\* the process is killed.
C12_RunfileComplete == runfile # None => inodes[runfile] = "record"

RECURSIVE IsSubsequence(_, _)
IsSubsequence(a, s) ==
    IF a = <<>> THEN TRUE
    ELSE IF s = <<>> THEN FALSE
    ELSE IF Head(a) = Head(s) THEN IsSubsequence(Tail(a), Tail(s))
    ELSE IsSubsequence(a, Tail(s))

\* C15: as long as every run is begun at most once, after every call, failed
\* ones included, every run of the anchor stack is in the run stack and the
\* anchor stack is a subsequence of the run stack; and an end() that pops the
\* top anchor removes it from both stacks.
C15_AnchorsWithinStack ==
    /\ [](BegunOnce =>
            /\ Range(anchors) \subseteq Range(stack)
            /\ IsSubsequence(anchors, stack))
    /\ [][BegunOnce =>
            \A r \in RunIds :
               ((\E s \in RunStatus : End(r, s))
                    /\ current(stack) = r /\ anchor(anchors) = r)
                 => /\ stack' = Front(stack)
                    /\ anchors' = Front(anchors)
                    /\ r \notin Range(stack')
                    /\ r \notin Range(anchors')]_vars

\* C15 witness: of two nested runs the inner one was an explicit anchor and
\* has ended; the outer one is again the only entry of both stacks
C15_Witness ==
    /\ Len(begun) = 2
    /\ BegunOnce
    /\ runs[begun[2]].is_anchor
    /\ runs[begun[2]].status # Null
    /\ stack = <<begun[1]>>
    /\ anchors = <<begun[1]>>

\* C16: begin() of run r appends r to the anchor stack exactly when r is an
\* explicit anchor or the anchor stack is empty and r has no parent; and as
\* long as every run is begun at most once, the anchor stack is not empty
\* while a run without parent is on the run stack.
C16_ImplicitAnchor ==
    /\ [](BegunOnce =>
            ((\E r \in Range(stack) : runs[r].parent_id = None) => anchors # <<>>))
    /\ [][\A r \in RunIds :
            Begin(r) =>
               /\ stack' = Append(stack, r)
               /\ IF runs[r].is_anchor \/ (anchors = <<>> /\ runs[r].parent_id = None)
                  THEN anchors' = Append(anchors, r)
                  ELSE anchors' = anchors]_vars

\* C16 witness: a run without parent that is no explicit anchor became the
\* anchor, and a second run without parent was begun inside it and did not
C16_Witness ==
    /\ BegunOnce
    /\ stack = <<1, 2>>
    /\ anchors = <<1>>
    /\ ~runs[1].is_anchor /\ runs[1].parent_id = None
    /\ ~runs[2].is_anchor /\ runs[2].parent_id = None

\* the positions of the stack, up to i, that hold an explicit anchor
ExplicitAnchorsUpTo(i) == {j \in 1..i : runs[stack[j]].is_anchor}

\* C17: as long as every run is begun at most once, an active run that has
\* an explicit anchor among itself and the runs below it on the stack has as
\* anchor_id the id of the nearest of them: its own id when it was created
\* with anchor=True.
C17_AnchorIdNearestExplicit ==
    BegunOnce =>
        \A i \in DOMAIN stack :
            ExplicitAnchorsUpTo(i) # {} =>
                runs[stack[i]].anchor_id = stack[Largest(ExplicitAnchorsUpTo(i))]

\* C18: as long as every run is begun at most once, every active run above
\* the bottom of the stack has as root_id the id of the bottom run, which was
\* the bottom of the stack when it began, whenever it was constructed.
C18_RootIdAtBegin ==
    BegunOnce =>
        \A i \in 2..Len(stack) : runs[stack[i]].root_id = stack[1]

(***************************************************************************)
(* Claims about Run as a with block, under SpecScope.                      *)
(***************************************************************************)
\* the status the run should end with when its block is left with exc
ExpectedStatus(exc) ==
    CASE exc = "KeyboardInterrupt" -> "aborted"
      [] exc = NoExc -> "completed"
      [] OTHER -> "failed"

\* C14: leaving the block of run r with exc is one end() call of r, with
\* status aborted for KeyboardInterrupt, failed for another exception and
\* completed for none; when r is the current run it ends with that status.
C14_ExitStatus ==
    [][\A r \in RunIds, exc \in Excs :
          Exit(r, exc) =>
              /\ End(r, ExpectedStatus(exc))
              /\ current(stack) = r => runs'[r].status = ExpectedStatus(exc)]_vars

\* C14 witness: of two nested blocks the inner was left by an interrupt and
\* the outer by another exception
C14_Witness ==
    /\ Len(begun) = 2
    /\ BegunOnce
    /\ runs[begun[2]].status = "aborted"
    /\ runs[begun[1]].status = "failed"
    /\ stack = <<>>

C20_PeriodSinceMostRecent ==
    \A m \in MonIds :
        /\ (th[m].pc = "update" /\ th[m].reply # "updated") =>
               th[m].now - th[m].upd_at >= UpdateFreq - Threshold
        /\ (th[m].pc \in {"update", "save"} /\ th[m].doSave) =>
               th[m].now - th[m].sav_at >= SaveFreq - Threshold

(***************************************************************************)
(* Claims about the loop of the monitor thread and the caller's runs,      *)
(* under SpecMonitor.                                                      *)
(***************************************************************************)
\* C21: a request that was waiting when an iteration of the monitor thread
\* began is received in that iteration: the thread is past the top of an
\* iteration that began with a request waiting only while it polls.
C21_PendingReceivedInIteration ==
    \A m \in MonIds : waited[m] > 0 => th[m].pc = "poll"

\* a thread that has left run(), by returning or by an exception
Ended(m) == th[m].pc \in {"done", "crashed"}

\* shutdown() was called on monitor m
ShutdownCalled(m) == sock[m] = "closed" \/ (cpc.op = "shutdown" /\ cpc.m = m)

\* C22: a monitor thread has left its loop only if shutdown() was called on
\* its monitor.
C22_EndsOnlyByShutdown ==
    \A m \in MonIds : Ended(m) => ShutdownCalled(m)

\* C23: when a monitor thread makes its _update_active call, the recorders
\* of every run on the stack were started.
C23_UpdatesStartedRunsOnly ==
    [][\A m \in MonIds :
          (th[m].pc = "update" /\ SamplerUpdate(m)) =>
              \A r \in Range(stack) : recs[r].started]_vars

(***************************************************************************)
(* Claims about the fan-outs of the monitor thread and Run.end, under      *)
(* SpecFanOut.                                                             *)
(***************************************************************************)
\* the caller thread is in end() of run r, past pop_run: it finishes the
\* recorders, sets status and end_time, or saves
Finalizing(r) ==
    cpc.op = "end" /\ cpc.r = r /\ cpc.step \in {"finish", "status", "save"}

\* the monitor thread is inside _update_active or _save_active
InFanOut == fan.kind \in {"update", "save"}

\* C24: the monitor thread holds STATE.lock throughout a fan-out, and while
\* it does no run is pushed or popped; a run that end() finalizes or has given
\* a status is off the stack, and is not the run a fan-out is saving.
C24_FanOutUnderLock ==
    /\ [](InFanOut => lock = "bg")
    /\ [][lock = "bg" => (stack' = stack /\ anchors' = anchors)]_vars
    /\ [](\A r \in RunIds :
            (Finalizing(r) \/ runs[r].status # Null) => r \notin Range(stack))
    /\ [](\A r \in RunIds : Finalizing(r) => fan.r # r)

\* C24 witness: end() finalizes a run while a fan-out, begun after the pop,
\* has gone past the first run of the stack
C24_Witness ==
    /\ \E r \in RunIds : Finalizing(r)
    /\ InFanOut
    /\ fan.i >= 2

\* C25: a save of the monitor thread serializes a record without status, and
\* a file that holds a record with a status is written no more.
C25_FinalSaveIsLast ==
    /\ [](fan.kind = "save" => fan.snap \in {"", Null})
    /\ [][\A r \in RunIds :
            files[r].status \in RunStatus => files'[r] = files[r]]_vars

\* C25 witness: a run's final record is on disk and the monitor thread is
\* saving the runs that are still on the stack
C25_Witness ==
    /\ \E r \in RunIds : files[r].status \in RunStatus
    /\ fan.kind = "save"
    /\ fan.snap = Null

(***************************************************************************)
(* Claims about callers that share one Monitor, under SpecShared.          *)
(***************************************************************************)
\* C26: every refresh() of either caller thread is answered: no call has
\* ended in an exception or with the process, and a call of the second
\* thread that returned had received "updated".
C26_EveryRequestAnswered ==
    /\ peer.step \notin BusySend
    /\ peer.got \in {"", "updated"}
    /\ outcome # "ZMQError"

====
